---- MODULE Spec2Model ----
(***************************************************************************)
(* Model of the juris-slm GuardRAG backend: the layered access-labelling   *)
(* pipeline (HardFilter, SentinelClassifier, KeywordHeuristic,             *)
(* SecurityManager), the persisted corpus (faiss.index + metadata.pkl),    *)
(* ingestion and the role-filtered query, in both implementations the      *)
(* repository carries:                                                     *)
(*   impl = "src"  : backend/src/{security,ingestion,query,api}.py         *)
(*   impl = "core" : backend/core.py (GuardRAG) behind backend/main.py     *)
(*                                                                         *)
(* Abstractions.  A text is the set of lower-cased words it contains; a    *)
(* hard pattern is a tag plus the words its regex requires; `x in text`    *)
(* substring tests become membership.  Scores are integers in hundredths  *)
(* (0.85 = 85).  The FAISS index is its vector count (ntotal); None is the *)
(* string "<None>"; an absent index is NoIndex.                           *)
(***************************************************************************)
EXTENDS Integers, Sequences, FiniteSets, TLC

VARIABLES
    impl,               \* which implementation serves the requests
    hard_patterns,      \* config.security.hard_patterns (src) as loaded at startup
    sentinel_available, \* SentinelClassifier.available, fixed by the constructor
    index,              \* in-memory FAISS index: NoIndex (None) or its ntotal
    metadata,           \* in-memory metadata list
    documents,          \* in-memory documents list (None before the first load in core)
    file_index,         \* faiss.index on disk: NoIndex (absent) or its ntotal
    file_meta,          \* metadata.pkl on disk: NoMetaFile or MetaFile(..)
    result,             \* the response of the last completed request
    assessed,           \* the last pair of assess_chunk evaluations (assessment runs)
    up,                 \* the upload request in progress (step-level runs)
    qr,                 \* the query request in progress (step-level runs)
    LAST_TRACE,         \* the flight-recorder dict of src/api.py
    loop,               \* upload requests waiting for the event loop, and those it started
    config,             \* the configuration values a wrong setting can break
    managers,           \* which global managers lifespan built, and the phase of start-up
    models,             \* the lazily loaded model slots and the threads that load them
    chunker             \* the run of smart_chunk_text in progress (chunking runs)

vars == <<impl, hard_patterns, sentinel_available, index, metadata, documents,
          file_index, file_meta, result, assessed, up, qr, LAST_TRACE, loop,
          config, managers, models, chunker>>

None == "<None>"

\* an index object that is None, and a faiss.index file that does not exist
NoIndex == 0 - 1

\* metadata.pkl: absent, or the pickled {"metadata": ..., "documents": ...}
NoMetaFile == [exists |-> FALSE, metadata |-> <<>>, documents |-> <<>>]
MetaFile(m, d) == [exists |-> TRUE, metadata |-> m, documents |-> d]

\* the allowed_indices argument of a query: None, or a list
NoIndices == [given |-> FALSE, list |-> <<>>]
Indices(l) == [given |-> TRUE, list |-> l]

----------------------------------------------------------------------------
(* Bounds of the model *)

MaxCorpus == 3      \* ingestion is not offered beyond this many chunks
TopK == 2           \* the configured top_k of the run (default 3)
MaxPatterns == 2    \* length of the configured hard-pattern list in assessment runs
MaxThreads == 2     \* requests the thread pool runs at once in model-loading runs

----------------------------------------------------------------------------
(* Texts, patterns and configuration values *)

ChimeraText == {"project", "chimera", "merger"}
VacationText == {"vacation", "policy"}
MergerText == {"merger", "forecast"}
PlainText == {"notice", "period"}
InternalText == {"internal", "use", "only", "memo"}
TradeSecretText == {"trade", "secret", "recipe"}
TieText == {"merger", "policy", "update"}
Texts ==
    {ChimeraText, VacationText, MergerText, PlainText, InternalText, TradeSecretText, TieText}

PatChimera == [tag |-> "project_chimera", words |-> {"project", "chimera"}]
PatConfidential == [tag |-> "confidential", words |-> {"confidential"}]
PatMerger == [tag |-> "merger_term", words |-> {"merger"}]
PatPolicy == [tag |-> "policy_doc", words |-> {"policy"}]
PatInternal == [tag |-> "internal", words |-> {"internal", "use", "only"}]
PatTradeSecret == [tag |-> "trade_secret", words |-> {"trade", "secret"}]
PatternPool == {PatChimera, PatConfidential, PatMerger, PatPolicy, PatInternal, PatTradeSecret}

\* the configuration the service runs with
DefaultPatterns == <<PatChimera, PatConfidential>>
SensitiveKeywords == {"confidential", "merger"}
PublicKeywords == {"policy"}
SentinelThreshold == 85

Min(a, b) == IF a <= b THEN a ELSE b
Max(a, b) == IF a >= b THEN a ELSE b

RECURSIVE SelectTags(_, _)
\* the tags of the patterns that match, in pattern order
SelectTags(patterns, text) ==
    IF patterns = <<>> THEN <<>>
    ELSE (IF Head(patterns).words \subseteq text THEN <<Head(patterns).tag>> ELSE <<>>)
         \o SelectTags(Tail(patterns), text)

Range(s) == {s[i] : i \in DOMAIN s}

\* the sequences over S of length at most n
RECURSIVE SeqsUpTo(_, _)
SeqsUpTo(S, n) ==
    IF n = 0 THEN {<<>>}
    ELSE LET shorter == SeqsUpTo(S, n - 1)
         IN shorter \cup {Append(q, x) : q \in shorter, x \in S}

InsertAt(s, pos, x) == SubSeq(s, 1, pos) \o <<x>> \o SubSeq(s, pos + 1, Len(s))

----------------------------------------------------------------------------
(* src/security.py *)

ForcedTags == {"project_chimera", "confidential", "ssn", "credit_card"}

\* a slip that looks only at the last fired tag
HardFilterCheck_LastTag(patterns, text) ==
    LET tags == SelectTags(patterns, text)
    IN [tags |-> tags,
        forced_role |-> IF tags # <<>> /\ tags[Len(tags)] \in ForcedTags
                        THEN "admin" ELSE None]

HardFilterCheck(patterns, text) ==
    LET tags == SelectTags(patterns, text)
    IN [tags |-> tags,
        forced_role |-> IF \E t \in ForcedTags : t \in Range(tags)
                        THEN "admin" ELSE None]

CandidateLabels == {"public", "confidential", "legal"}
Scores == {50, 85, 90}
SensitiveLabels == {"confidential", "pii", "internal", "financial"}

\* every result SentinelClassifier.check can return
SentinelOutcomes(available) ==
    IF ~available
    THEN {[label |-> None, score |-> 0, method |-> "none"]}
    ELSE {[label |-> None, score |-> 0, method |-> "error"]}
         \cup {[label |-> l, score |-> s, method |-> "zeroshot"] :
                 l \in CandidateLabels, s \in Scores}

AllSentinelOutcomes == SentinelOutcomes(TRUE) \cup SentinelOutcomes(FALSE)

KeywordHeuristicCheck(text) ==
    LET sens_hits == Cardinality(SensitiveKeywords \cap text)
        pub_hits == Cardinality(PublicKeywords \cap text)
    IN IF sens_hits > pub_hits
       THEN [label |-> "sensitive",
             score |-> Min(100, (100 * sens_hits) \div Cardinality(SensitiveKeywords)),
             method |-> "heuristic"]
       ELSE [label |-> "public", score |-> 0, method |-> "heuristic"]

\* backend/security.py: the keyword fallback at the end of classify_chunk
classify_chunk_fallback(text) ==
    LET sens_hits == Cardinality(SensitiveKeywords \cap text)
        pub_hits == Cardinality(PublicKeywords \cap text)
    IN IF sens_hits >= 1 /\ sens_hits > pub_hits THEN "sensitive"
       ELSE IF pub_hits >= 1 /\ pub_hits >= sens_hits THEN "public"
       ELSE "sensitive"

\* a slip that runs the heuristic after every sentinel result
HeuristicConsulted_Always(sent) == TRUE

\* "Fallback to heuristic if sentinel failed": the heuristic runs when the
\* sentinel returned no zero-shot result (unavailable, or its scoring raised)
HeuristicConsulted(sent) == sent.method # "zeroshot"

\* a slip that lets a confident "public" verdict of the sentinel reset the role
assess_chunk_Downgrade(patterns, text, sent) ==
    LET hf == HardFilterCheck(patterns, text)
        r2 == IF sent.method = "zeroshot" /\ sent.score >= SentinelThreshold
              THEN (IF sent.label \in SensitiveLabels THEN "admin"
                    ELSE IF sent.label = "public" THEN None ELSE hf.forced_role)
              ELSE hf.forced_role
        r3 == IF sent.method # "zeroshot" /\ KeywordHeuristicCheck(text).label = "sensitive"
              THEN "admin" ELSE r2
    IN [role |-> IF r3 = None THEN "public" ELSE r3,
        tags |-> hf.tags, sentinel_label |-> sent.label, sentinel_score |-> sent.score]

assess_chunk(patterns, text, sent) ==
    LET hf == HardFilterCheck(patterns, text)
        r1 == hf.forced_role
        r2 == IF sent.method = "zeroshot" /\ sent.score >= SentinelThreshold
                 /\ sent.label \in SensitiveLabels
              THEN "admin" ELSE r1
        r3 == IF HeuristicConsulted(sent) /\ KeywordHeuristicCheck(text).label = "sensitive"
              THEN "admin" ELSE r2
    IN [role |-> IF r3 = None THEN "public" ELSE r3,
        tags |-> hf.tags, sentinel_label |-> sent.label, sentinel_score |-> sent.score]

----------------------------------------------------------------------------
(* core.py: HardFilter.inspect and the labelling inlined in GuardRAG.ingest_pdf *)

CorePatterns ==
    << [tag |-> "pii_ssn", words |-> {"123-45-6789"}],
       [tag |-> "pii_cc", words |-> {"4111111111111111"}],
       PatChimera, PatConfidential,
       PatInternal, PatTradeSecret >>

CoreForcedTags ==
    {"project_chimera", "confidential", "pii_ssn", "pii_cc", "trade_secret", "internal"}

HardFilterInspect(text) ==
    LET tags == SelectTags(CorePatterns, text)
    IN [tags |-> tags,
        forced_role |-> IF \E t \in CoreForcedTags : t \in Range(tags)
                        THEN "admin" ELSE None]

\* the role and tags the labelling loop of GuardRAG.ingest_pdf gives a chunk
core_label_chunk(text, available, sent) ==
    LET hf == HardFilterInspect(text)
        r1 == IF hf.forced_role = "admin" THEN "admin" ELSE "public"
        up2 == available /\ sent.label # None /\ sent.score >= 85
               /\ sent.label \in SensitiveLabels
    IN [role |-> IF up2 THEN "admin" ELSE r1,
        tags |-> IF up2 THEN Append(hf.tags, "sentinel:" \o sent.label) ELSE hf.tags,
        sentinel_label |-> IF available THEN sent.label ELSE None,
        sentinel_score |-> IF available THEN sent.score ELSE 0]

----------------------------------------------------------------------------
(* Values of the request-level variables while the service is idle *)

NoResult == [op |-> "none", status |-> "none"]

\* the worker threads of the pool, none of them in a request
Threads == 1..MaxThreads
IdleThread == [pc |-> "idle", midway |-> FALSE, method |-> "none", after_failure |-> FALSE]

\* ModelManager.__init__ and the module globals of sentinel.py: every slot is
\* None, nothing was loaded
NoModels ==
    [embedding_model |-> None, llm_tokenizer |-> None, llm_model |-> None,
     pipeline |-> None, pipeline_loaded |-> FALSE,
     inits |-> [embedding |-> 0, llm |-> 0, pipeline |-> 0],
     threads |-> [t \in Threads |-> IdleThread]]

\* no text is being chunked
NoChunker == [pc |-> "idle"]
NoAssess == [done |-> FALSE]
Idle == [pc |-> "idle"]

\* LAST_TRACE = {}
NoTrace == [k \in {} |-> "latest"]

\* no upload request waiting for the event loop, none started; overlapped records
\* that a request arrived while another was waiting or running
NoRequests == [queue |-> <<>>, started |-> <<>>, overlapped |-> FALSE]

\* the configuration of the runs that do not vary it
DefaultConfig ==
    [well_typed |-> TRUE, chunk_size |-> 500, chunk_overlap |-> 50,
     sentinel_threshold |-> SentinelThreshold, patterns_compile |-> TRUE]

\* the globals of api.py after a start-up in which every constructor returned
AllManagers ==
    [model_manager |-> TRUE, security_manager |-> TRUE, ingestion_manager |-> TRUE,
     query_manager |-> TRUE, phase |-> "serving"]

\* the globals of api.py while the modules are imported, before lifespan runs
NoManagers ==
    [model_manager |-> FALSE, security_manager |-> FALSE, ingestion_manager |-> FALSE,
     query_manager |-> FALSE, phase |-> "import"]

----------------------------------------------------------------------------
(* Requests: roles, queries, documents and the faults of the collaborators *)

Roles == {"admin", "Admin", "guest", "user", "", None}

\* str(role)
Str(r) == IF r = None THEN "None" ELSE r

\* str.lower() on the strings that occur as roles
Lower(s) ==
    CASE s = "Admin" -> "admin"
      [] s = "None" -> "none"
      [] OTHER -> s

ChimeraQuery == {"tell", "me", "about", "project", "chimera"}
VacationQuery == {"what", "does", "the", "policy", "say", "about", "vacation"}
Queries == {ChimeraQuery, VacationQuery}

\* the chunk lists smart_chunk_text yields for the uploaded documents; ShortDoc is
\* a PDF whose extracted text has fewer than 30 characters
ShortDoc == <<>>
Docs == {<<ChimeraText, VacationText>>, <<VacationText>>, ShortDoc}
DocIds == {"a.pdf", "b.pdf"}

TopN == Max(TopK * 10, TopK + 5)

\* the permutations of 0..n-1: the orders argsort(-sims) can return
Perms(n) ==
    {p \in [1..n -> 0..(n - 1)] : \A i, j \in 1..n : i # j => p[i] # p[j]}

Take(s, n) == SubSeq(s, 1, Min(n, Len(s)))

RECURSIVE Dedup(_, _)
\* list(dict.fromkeys(sources))
Dedup(s, seen) ==
    IF s = <<>> THEN <<>>
    ELSE IF Head(s) \in seen THEN Dedup(Tail(s), seen)
         ELSE <<Head(s)>> \o Dedup(Tail(s), seen \cup {Head(s)})

\* the metadata record ingestion builds for chunk i of a document; the audit
\* fields sentinel_label and sentinel_score are written but never read again
\* and are not carried
Meta(doc_id, i, assessment) ==
    [source |-> doc_id, doc_id |-> <<doc_id, "chunk", i>>,
     tags |-> assessment.tags, role |-> assessment.role]

\* list(dict.fromkeys(sources)): the source of each context chunk, first
\* occurrences only; an entry of a sources list is a record, here [source]
SourceIds(ctx) == Dedup([i \in DOMAIN ctx |-> [source |-> ctx[i].meta.source]], {})

\* trace["retrieved_chunks"]: one entry per admitted chunk, holding its ordinal
\* among the admitted chunks, its role and its text (the score is left out)
RetrievedChunks(ctx) ==
    [i \in DOMAIN ctx |->
        [index |-> i - 1, role |-> ctx[i].meta.role, snippet |-> ctx[i].content]]

\* the response of a query, whichever way it ends, with the request it answers
\* (allowed_indices is filled in by the callers that pass one; sources is the
\* list GuardRAG.query returns, replaced by the src handler)
QResp(via, role, role_norm, path, query, cands, ctx, status, answered) ==
    [op |-> "query", via |-> via, role |-> role, role_norm |-> role_norm,
     path |-> path, query |-> query, candidates |-> cands, context |-> ctx,
     sources |-> SourceIds(ctx),
     status |-> status, answered |-> answered, detail |-> "",
     allowed_indices |-> NoIndices]

\* the handler's answer when the query raises: HTTPException(500, detail=str(e))
QRaise(via, role, query, what, detail) ==
    [QResp(via, role, None, "none", query, <<>>, <<>>, what, FALSE)
        EXCEPT !.detail = detail]

IResp(via, doc_id, status, n, detail) ==
    [op |-> "ingest", via |-> via, doc_id |-> doc_id, status |-> status,
     chunks_added |-> n, detail |-> detail]

\* str(e) of the ValueError raised for a text of fewer than 30 characters
EmptyPdf == "PDF is empty or unreadable"

\* str(e) of the ValueError GuardRAG.ingest_pdf raises when pdfplumber fails
CouldNotRead == "Could not read PDF"

\* the in-memory corpus as a record
Mem(i, m, d) == [index |-> i, metadata |-> m, documents |-> d]
Disk(fi, fm) == [file_index |-> fi, file_meta |-> fm]

----------------------------------------------------------------------------
(* src/ingestion.py *)

\* IngestionManager._load_db
load_db(mem, disk) ==
    IF disk.file_index # NoIndex /\ disk.file_meta.exists
    THEN Mem(disk.file_index, disk.file_meta.metadata, disk.file_meta.documents)
    ELSE mem

\* a slip that puts the new chunks in front of the corpus
append_chunks_InFront(mem, chunks, new_metadata) ==
    IF mem.index = NoIndex
    THEN Mem(0, new_metadata, chunks)
    ELSE Mem(mem.index + Len(chunks), new_metadata \o mem.metadata,
             chunks \o mem.documents)

\* the corpus after the "Embed and add to FAISS" block of ingest_pdf: a fresh
\* IndexFlatIP is created empty and nothing is added to it
append_chunks(mem, chunks, new_metadata) ==
    IF mem.index = NoIndex
    THEN Mem(0, new_metadata, chunks)
    ELSE Mem(mem.index + Len(chunks), mem.metadata \o new_metadata,
             mem.documents \o chunks)

\* IngestionManager._save_db; fault names the write that raises, if one does
save_db(mem, disk, fault) ==
    IF fault = "write_index" THEN disk
    ELSE IF fault = "write_meta" THEN Disk(mem.index, disk.file_meta)
    ELSE Disk(mem.index, MetaFile(mem.metadata, mem.documents))

\* a slip that rejects the document after its chunks were appended
RejectedCorpus_Grown(loaded, grown) == grown

\* the in-memory corpus a rejected ingestion leaves: the one the call loaded,
\* the ValueError being raised before anything is appended
RejectedCorpus(loaded, grown) == loaded

IngestFaults == {"none", "load_model", "read_pdf", "encode", "write_index", "write_meta"}

\* IngestionManager.ingest_pdf: the corpus, the files and the response it leaves
ingest_pdf(mem, disk, doc_id, chunks, sents, fault) ==
    LET loaded == load_db(mem, disk)
        new_metadata == [i \in DOMAIN chunks |->
                            Meta(doc_id, i - 1, assess_chunk(hard_patterns, chunks[i], sents[i]))]
        grown == append_chunks(loaded, chunks, new_metadata)
    IN IF fault = "load_model"
       THEN [mem |-> mem, disk |-> disk,
             resp |-> IResp("upload", doc_id, "http500", 0, fault)]
       ELSE IF fault = "read_pdf"
       THEN [mem |-> RejectedCorpus(loaded, grown), disk |-> disk,
             resp |-> IResp("upload", doc_id, "http500", 0, fault)]
       ELSE IF chunks = ShortDoc
       THEN [mem |-> RejectedCorpus(loaded, grown), disk |-> disk,
             resp |-> IResp("upload", doc_id, "http500", 0, EmptyPdf)]
       ELSE IF fault = "encode"
       THEN [mem |-> loaded, disk |-> disk,
             resp |-> IResp("upload", doc_id, "http500", 0, fault)]
       ELSE IF fault \in {"write_index", "write_meta"}
       THEN [mem |-> grown, disk |-> save_db(grown, disk, fault),
             resp |-> IResp("upload", doc_id, "http500", 0, fault)]
       ELSE [mem |-> grown, disk |-> save_db(grown, disk, "none"),
             resp |-> IResp("upload", doc_id, "success", Len(chunks), "")]

----------------------------------------------------------------------------
(* src/query.py *)

\* a slip that filters by label alone, forgetting the admin bypass
Admits_LabelOnly(role_norm, doc_role) == doc_role = "public"

\* role filter of QueryManager.query
Admits(role_norm, doc_role) == role_norm = "admin" \/ doc_role = "public"

RECURSIVE RoleFilter(_, _, _)
\* the "Filter by role" loop: candidates in order, stopping once top_k are kept
RoleFilter(cands, role_norm, kept) ==
    IF cands = <<>> THEN kept
    ELSE LET res == Head(cands)
             kept2 == IF Admits(role_norm, res.meta.role) THEN Append(kept, res) ELSE kept
         IN IF Len(kept2) >= TopK THEN kept2
            ELSE RoleFilter(Tail(cands), role_norm, kept2)

RECURSIVE Candidates(_, _, _)
\* candidate_results built from 0-based indices idxs, in order; an index outside
\* documents is skipped when checked is set (the explicit path)
Candidates(idxs, mem, checked) ==
    IF idxs = <<>> THEN <<>>
    ELSE LET idx == Head(idxs)
         IN (IF checked /\ ~(0 <= idx /\ idx < Len(mem.documents)) THEN <<>>
             ELSE <<[idx |-> idx, content |-> mem.documents[idx + 1],
                     meta |-> mem.metadata[idx + 1]]>>)
            \o Candidates(Tail(idxs), mem, checked)

\* does building the candidates read metadata or documents out of range
Raises(idxs, mem, checked) ==
    \E i \in DOMAIN idxs :
        /\ (checked => (0 <= idxs[i] /\ idxs[i] < Len(mem.documents)))
        /\ ~(0 <= idxs[i] /\ idxs[i] < Len(mem.documents)
             /\ idxs[i] < Len(mem.metadata))

QueryFaults == {"none", "load_model", "generate"}

\* a slip that answers an empty corpus like a refusal
NoDocumentsStatus_Blocked == "blocked"

\* the status of the trace returned with "No documents available."
NoDocumentsStatus == "success"

\* QueryManager.query on the corpus it has just loaded; allowed_indices is None
\* or a list of indices, ranking the order argsort(-sims) gives the documents
QueryManager_query(via, mem, query, role, allowed_indices, ranking, fault) ==
    LET role_norm == Lower(Str(role))
        explicit == allowed_indices.given /\ allowed_indices.list # <<>>
        idxs == IF explicit THEN allowed_indices.list ELSE Take(ranking, TopN)
        path == IF explicit THEN "explicit" ELSE "ranked"
        cands == Candidates(idxs, mem, explicit)
        kept == RoleFilter(cands, role_norm, <<>>)
    IN IF mem.documents = <<>>
       THEN QResp(via, role, role_norm, "none", query, <<>>, <<>>, NoDocumentsStatus,
                  FALSE)
       ELSE IF Raises(idxs, mem, explicit)
       THEN QRaise(via, role, query, "http500", "IndexError")
       ELSE IF kept = <<>>
       THEN QResp(via, role, role_norm, path, query, cands, <<>>, "blocked", FALSE)
       ELSE IF fault = "generate"
       THEN QRaise(via, role, query, "http500", fault)
       ELSE [QResp(via, role, role_norm, path, query, cands, kept, "success", TRUE)
                EXCEPT !.sources = RetrievedChunks(kept)]

----------------------------------------------------------------------------
(* core.py: GuardRAG.  The engine's faiss_index, metadata and documents are set  *)
(* together, so "not loaded yet" is index = None (the two lists are then empty). *)

\* GuardRAG._load_resources, part 2: load once; ok is FALSE when it raises
\* FileNotFoundError
load_resources(mem, disk) ==
    IF mem.index # NoIndex THEN [ok |-> TRUE, mem |-> mem]
    ELSE IF disk.file_index = NoIndex \/ ~disk.file_meta.exists
    THEN [ok |-> FALSE, mem |-> mem]
    ELSE [ok |-> TRUE,
          mem |-> Mem(disk.file_index, disk.file_meta.metadata, disk.file_meta.documents)]

\* the best-effort persistence of GuardRAG.ingest_pdf: metadata.pkl first, then
\* faiss.index; a write that raises ends the block and is only logged
core_persist(mem, disk, fault) ==
    IF fault = "write_meta" THEN disk
    ELSE IF fault = "write_index"
    THEN Disk(disk.file_index, MetaFile(mem.metadata, mem.documents))
    ELSE Disk(mem.index, MetaFile(mem.metadata, mem.documents))

\* GuardRAG.ingest_pdf
core_ingest_pdf(mem, disk, doc_id, chunks, sents, fault) ==
    LET lr == load_resources(mem, disk)
        new_metadata == [i \in DOMAIN chunks |->
                            Meta(doc_id, i - 1,
                                 core_label_chunk(chunks[i], sentinel_available, sents[i]))]
        grown == Mem(lr.mem.index + Len(chunks), lr.mem.metadata \o new_metadata,
                     lr.mem.documents \o chunks)
    IN IF fault = "load_model" \/ ~lr.ok
       THEN [mem |-> mem, disk |-> disk,
             resp |-> IResp("upload", doc_id, "http500", 0,
                            IF fault = "load_model" THEN fault ELSE "FileNotFoundError")]
       ELSE IF fault = "read_pdf"
       THEN [mem |-> RejectedCorpus(lr.mem, grown), disk |-> disk,
             resp |-> IResp("upload", doc_id, "http500", 0, CouldNotRead)]
       ELSE IF chunks = ShortDoc
       THEN [mem |-> RejectedCorpus(lr.mem, grown), disk |-> disk,
             resp |-> IResp("upload", doc_id, "http500", 0, EmptyPdf)]
       ELSE IF fault = "encode"
       THEN [mem |-> lr.mem, disk |-> disk,
             resp |-> IResp("upload", doc_id, "http500", 0, fault)]
       ELSE [mem |-> grown, disk |-> core_persist(grown, disk, fault),
             resp |-> IResp("upload", doc_id, "success", Len(chunks), "")]

\* the RBAC filter of GuardRAG.query: only the role "guest" is filtered
CoreAdmits(role_norm, doc_role) == ~(role_norm = "guest" /\ doc_role # "public")

RECURSIVE CoreRoleFilter(_, _, _)
CoreRoleFilter(cands, role_norm, kept) ==
    IF cands = <<>> THEN kept
    ELSE LET res == Head(cands)
             kept2 == IF CoreAdmits(role_norm, res.meta.role) THEN Append(kept, res)
                      ELSE kept
         IN IF Len(kept2) >= TopK THEN kept2
            ELSE CoreRoleFilter(Tail(cands), role_norm, kept2)

\* role normalisation of GuardRAG.query: a falsy role becomes "guest"
CoreRoleNorm(role) == IF role = None \/ role = "" THEN "guest" ELSE Lower(Str(role))

RECURSIVE KeepBelow(_, _)
\* the indices of s below n, in order
KeepBelow(s, n) ==
    IF s = <<>> THEN <<>>
    ELSE (IF Head(s) < n THEN <<Head(s)>> ELSE <<>>) \o KeepBelow(Tail(s), n)

CoreQueryFaults == {"none", "scan", "search", "generate"}

RECURSIVE GoodPrefix(_, _)
\* the candidates appended before a metadata lookup raises IndexError
GoodPrefix(s, n) ==
    IF s = <<>> \/ Head(s) >= n THEN <<>>
    ELSE <<Head(s)>> \o GoodPrefix(Tail(s), n)

\* GuardRAG.query on a loaded engine; ranking orders the documents by similarity,
\* faiss_order is what the index search returns when the full scan raises
GuardRAG_query(via, mem, query, role, allowed_indices, ranking, faiss_order, fault) ==
    LET role_norm == CoreRoleNorm(role)
        explicit == allowed_indices.given /\ allowed_indices.list # <<>>
        top_idx == Take(ranking, TopN)
        scan_raises == fault \in {"scan", "search"}
                       \/ \E i \in DOMAIN top_idx : top_idx[i] >= Len(mem.metadata)
        fallback == ~explicit /\ scan_raises
        found == KeepBelow(Take(faiss_order, TopK * 10), Len(mem.metadata))
        search_raises == fault = "search"
                         \/ \E i \in DOMAIN found : found[i] >= Len(mem.documents)
        idxs == IF explicit THEN allowed_indices.list
                ELSE IF fallback
                THEN (IF fault = "none" THEN GoodPrefix(top_idx, Len(mem.metadata))
                      ELSE <<>>) \o found
                ELSE top_idx
        path == IF explicit THEN "explicit" ELSE IF fallback THEN "faiss" ELSE "ranked"
        cands == Candidates(idxs, mem, explicit)
        kept == CoreRoleFilter(cands, role_norm, <<>>)
    IN IF ~explicit /\ mem.documents = <<>>
       THEN QResp(via, role, role_norm, "none", query, <<>>, <<>>, "empty", FALSE)
       ELSE IF fallback /\ search_raises
       THEN QResp(via, role, role_norm, "faiss", query, <<>>, <<>>, "error", FALSE)
       ELSE IF explicit /\ Raises(idxs, mem, explicit)
       THEN QRaise(via, role, query, "http500", "IndexError")
       ELSE IF kept = <<>>
       THEN QResp(via, role, role_norm, path, query, cands, <<>>, "blocked_or_empty", FALSE)
       ELSE IF fault = "generate"
       THEN QResp(via, role, role_norm, path, query, cands, kept, "error", FALSE)
       ELSE QResp(via, role, role_norm, path, query, cands, kept, "success", TRUE)

----------------------------------------------------------------------------
(* main.py: query_with_rbac *)

RECURSIVE IndicesWhere(_, _, _)
\* [i for i in range(lo, n) if i in S], 0-based
IndicesWhere(lo, n, S) ==
    IF lo >= n THEN <<>>
    ELSE (IF lo \in S THEN <<lo>> ELSE <<>>) \o IndicesWhere(lo + 1, n, S)

\* a slip that keeps the short words of the query too
QTokens_All(query) == query

\* q_tokens: the words of the query longer than 2 characters
QTokens(query) == {t \in query : Len(t) > 2}

\* the chunks the lexical fallback matches: some token occurs in the text
LexicalMatches(mem, query) ==
    {i \in 0..(Len(mem.documents) - 1) : QTokens(query) \cap mem.documents[i + 1] # {}}

PublicIdx(mem) ==
    {i \in 0..(Len(mem.metadata) - 1) : mem.metadata[i + 1].role = "public"}

\* query_with_rbac on a loaded engine; above is the set of chunk indices whose
\* similarity reaches the threshold
query_with_rbac(mem, query, role, above, ranking, faiss_order, fault) ==
    LET n == Len(mem.documents)
        lexical == LexicalMatches(mem, query) \cap PublicIdx(mem)
        candidate_idx == IF above # {} THEN above ELSE lexical
        \* a metadata lookup that raises counts the chunk as public
        allowed == {i \in candidate_idx : i >= Len(mem.metadata) \/ i \in PublicIdx(mem)}
        denied(status) == QResp("query_with_rbac", role, Lower(role), "semantic", query,
                                <<>>, <<>>, status, FALSE)
    IN IF Lower(role) = "admin"
       THEN GuardRAG_query("query_with_rbac", mem, query, role, NoIndices, ranking,
                           faiss_order, fault)
       ELSE IF fault = "scan" THEN denied("error")
       ELSE IF above = {} /\ \E i \in LexicalMatches(mem, query) : i >= Len(mem.metadata)
       THEN QRaise("query_with_rbac", role, query, "http500", "IndexError")
       ELSE IF candidate_idx = {} THEN denied("blocked_layer2")
       ELSE IF allowed = {} THEN denied("blocked_layer2_no_public")
       ELSE GuardRAG_query("query_with_rbac", mem, query, role,
                           Indices(IndicesWhere(0, n, allowed)), ranking, faiss_order,
                           fault)

----------------------------------------------------------------------------
(* The service, one request at a time *)

mem == Mem(index, metadata, documents)
disk == Disk(file_index, file_meta)

\* the sentinel verdicts drawn for the chunks of an upload
IngestSentinel ==
    IF sentinel_available
    THEN {[label |-> None, score |-> 0, method |-> "error"],
          [label |-> "confidential", score |-> 90, method |-> "zeroshot"],
          [label |-> "public", score |-> 90, method |-> "zeroshot"]}
    ELSE SentinelOutcomes(FALSE)

\* a corpus an earlier run of the service left on disk: GuardRAG cannot create one
SeedMeta ==
    <<Meta("seed.pdf", 0, core_label_chunk(PlainText, FALSE, [label |-> None, score |-> 0]))>>
SeedDisk == Disk(Len(SeedMeta), MetaFile(SeedMeta, <<PlainText>>))

\* allowed_indices a direct caller passes: short lists over the corpus positions
\* and one position past them
AllowedLists == {Indices(l) : l \in SeqsUpTo(0..MaxCorpus, 2)}

Init ==
    /\ impl \in {"src", "core"}
    /\ hard_patterns = DefaultPatterns
    /\ sentinel_available \in BOOLEAN
    /\ index = NoIndex
    /\ metadata = <<>>
    /\ documents = <<>>
    /\ \E seeded \in BOOLEAN :
        IF impl = "core" /\ seeded
        THEN file_index = SeedDisk.file_index /\ file_meta = SeedDisk.file_meta
        ELSE file_index = NoIndex /\ file_meta = NoMetaFile
    /\ result = NoResult
    /\ assessed = NoAssess
    /\ up = Idle
    /\ qr = Idle
    /\ LAST_TRACE = NoTrace
    /\ loop = NoRequests
    /\ config = DefaultConfig
    /\ managers = AllManagers
    /\ models = NoModels
    /\ chunker = NoChunker

SetCorpus(m, d) ==
    /\ index' = m.index
    /\ metadata' = m.metadata
    /\ documents' = m.documents
    /\ file_index' = d.file_index
    /\ file_meta' = d.file_meta

\* what no request of the request-level runs changes
Static ==
    UNCHANGED <<impl, hard_patterns, sentinel_available, assessed, up, qr, loop, config,
                managers, models, chunker>>

Frame == Static /\ UNCHANGED LAST_TRACE

\* POST /upload of src/api.py
upload_document ==
    /\ impl = "src"
    /\ managers.phase = "serving"
    /\ result = NoResult
    /\ \E doc_id \in DocIds, chunks \in Docs, fault \in IngestFaults :
        \E sents \in [DOMAIN chunks -> IngestSentinel] :
            LET r == ingest_pdf(mem, disk, doc_id, chunks, sents, fault)
            IN /\ Len(load_db(mem, disk).documents) + Len(chunks) <= MaxCorpus
               /\ r.mem.index <= MaxCorpus
               /\ SetCorpus(r.mem, r.disk)
               /\ result' = r.resp
    /\ Frame

\* the keys of every trace QueryManager.query returns
TraceKeys ==
    {"query", "role", "sentinel_scores", "retrieved_chunks", "filtering_log", "status"}

\* the keys of the trace returned with a response: elapsed_seconds is set only
\* after generation
Trace(resp) == IF resp.answered THEN TraceKeys \cup {"elapsed_seconds"} ELSE TraceKeys

\* LAST_TRACE.update(trace); LAST_TRACE["timestamp"] = time.time(): each key of
\* the dict is marked by whether this query wrote it ("latest") or an earlier
\* one did
DictUpdate(last, keys) ==
    [k \in DOMAIN last \cup keys \cup {"timestamp"} |->
        IF k \in keys \cup {"timestamp"} THEN "latest" ELSE "earlier"]

\* the flight recorder after /query: untouched when QueryManager.query raised
Recorded(last, resp) ==
    IF resp.status = "http500" THEN last ELSE DictUpdate(last, Trace(resp))

\* the orders and faults a ranked query can meet; the order is not read when
\* loading a model raises
RankedInputs(n, faults) ==
    {[ranking |-> r, fault |-> f] : r \in Perms(n), f \in faults \ {"load_model"}}
    \cup {[ranking |-> <<>>, fault |-> f] : f \in faults \cap {"load_model"}}

\* the order is read only when the list is None or empty
ExplicitInputs(n) ==
    {[allowed_indices |-> a, ranking |-> <<>>] : a \in AllowedLists \ {Indices(<<>>)}}
    \cup {[allowed_indices |-> a, ranking |-> r] :
            a \in {NoIndices, Indices(<<>>)}, r \in Perms(n)}

\* POST /query of src/api.py: QueryManager.query without explicit indices
query_engine ==
    /\ impl = "src"
    /\ managers.phase = "serving"
    /\ result = NoResult
    /\ \E query \in Queries, role \in Roles \ {None} :
        \E in \in RankedInputs(Len(load_db(mem, disk).documents), QueryFaults) :
            LET loaded == IF in.fault = "load_model" THEN mem ELSE load_db(mem, disk)
                r == IF in.fault = "load_model"
                     THEN QRaise("query_engine", role, query, "http500", in.fault)
                     ELSE QueryManager_query("query_engine", loaded, query, role,
                                             NoIndices, in.ranking, in.fault)
            IN /\ SetCorpus(loaded, disk)
               /\ result' = r
               /\ LAST_TRACE' = Recorded(LAST_TRACE, r)
    /\ Static

\* QueryManager.query called with allowed_indices (evaluation and debugging callers)
query_explicit ==
    /\ impl = "src"
    /\ result = NoResult
    /\ \E role \in Roles :
        \E in \in ExplicitInputs(Len(load_db(mem, disk).documents)) :
            LET loaded == load_db(mem, disk)
            IN /\ in.allowed_indices.given
               /\ SetCorpus(loaded, disk)
               /\ result' = [QueryManager_query("QueryManager.query", loaded,
                                                VacationQuery, role, in.allowed_indices,
                                                in.ranking, "none")
                                EXCEPT !.allowed_indices = in.allowed_indices]
    /\ Frame

\* POST /upload of main.py
core_upload_document ==
    /\ impl = "core"
    /\ result = NoResult
    /\ \E doc_id \in DocIds, chunks \in Docs, fault \in IngestFaults :
        \E sents \in [DOMAIN chunks -> IngestSentinel] :
            LET r == core_ingest_pdf(mem, disk, doc_id, chunks, sents, fault)
            IN /\ Len(load_resources(mem, disk).mem.documents) + Len(chunks) <= MaxCorpus
               /\ r.mem.index <= MaxCorpus
               /\ SetCorpus(r.mem, r.disk)
               /\ result' = r.resp
    /\ Frame

\* what a request to query_with_rbac can meet: an admin is ranked (or searched
\* when the scan raises), anyone else is thresholded
RbacInputs(role, n, ntotal) ==
    LET blank == [above |-> {}, ranking |-> <<>>, faiss_order |-> <<>>, fault |-> "none"]
    IN IF Lower(role) = "admin"
       THEN {[blank EXCEPT !.ranking = r, !.fault = f] :
                r \in Perms(n), f \in {"none", "generate"}}
            \cup {[blank EXCEPT !.ranking = r, !.faiss_order = o, !.fault = "scan"] :
                    r \in {<<>>}, o \in Perms(ntotal)}
            \cup {[blank EXCEPT !.fault = "search"]}
       ELSE {[blank EXCEPT !.above = a, !.fault = f] :
                a \in SUBSET (0..(n - 1)), f \in {"none", "generate"}}
            \cup {[blank EXCEPT !.fault = "scan"]}

\* POST /query of main.py: query_with_rbac
core_query_engine ==
    /\ impl = "core"
    /\ result = NoResult
    /\ \E query \in Queries, role \in Roles \ {None} :
        LET lr == load_resources(mem, disk)
        IN \/ /\ ~lr.ok
              /\ UNCHANGED <<index, metadata, documents, file_index, file_meta>>
              /\ result' = QRaise("query_with_rbac", role, query, "http500",
                                   "FileNotFoundError")
           \/ /\ lr.ok
              /\ \E in \in RbacInputs(role, Len(lr.mem.documents), lr.mem.index) :
                    /\ SetCorpus(lr.mem, disk)
                    /\ result' = query_with_rbac(lr.mem, query, role, in.above, in.ranking,
                                                 in.faiss_order, in.fault)
    /\ Frame

\* GuardRAG.query called directly, with or without allowed_indices
core_query ==
    /\ impl = "core"
    /\ result = NoResult
    /\ \E role \in Roles :
        LET lr == load_resources(mem, disk)
        IN /\ lr.ok
           /\ \E in \in ExplicitInputs(Len(lr.mem.documents)) :
                /\ SetCorpus(lr.mem, disk)
                /\ result' = [GuardRAG_query("GuardRAG.query", lr.mem, VacationQuery,
                                              role, in.allowed_indices, in.ranking, <<>>,
                                              "none")
                                 EXCEPT !.allowed_indices = in.allowed_indices]
    /\ Frame

\* the caller takes the response; the next request is issued after that
Deliver ==
    /\ result # NoResult
    /\ result' = NoResult
    /\ UNCHANGED <<index, metadata, documents, file_index, file_meta>>
    /\ Frame

\* the process is restarted: the constructors run again, the files stay
Restart ==
    /\ result = NoResult
    /\ index # NoIndex
    /\ index' = NoIndex
    /\ metadata' = <<>>
    /\ documents' = <<>>
    /\ result' = NoResult
    /\ UNCHANGED <<file_index, file_meta>>
    /\ Frame

Next ==
    \/ upload_document
    \/ query_engine
    \/ query_explicit
    \/ core_upload_document
    \/ core_query_engine
    \/ core_query
    \/ Deliver
    \/ Restart

Spec == Init /\ [][Next]_vars

----------------------------------------------------------------------------
(* Properties of the request-level service *)

IsAdminRole(role) == Lower(Str(role)) = "admin"

ContextRoles == {result.context[i].meta.role : i \in DOMAIN result.context}

\* C1: for every query whose role is not admin, on the ranked and on the
\* explicit-indices path of QueryManager.query and GuardRAG.query, every chunk
\* placed in the generation context carries the access label "public".
C1_NonAdminContextPublic ==
    (result.op = "query" /\ ~IsAdminRole(result.role)) => ContextRoles \subseteq {"public"}

\* C2: for a query with role admin (in any letter case) the role filter is a
\* no-op: the context is exactly the first TopK candidates in candidate order,
\* whatever their labels, and the query is blocked only when there is no candidate.
C2_AdminFilterNoOp ==
    (/\ result.op = "query"
     /\ IsAdminRole(result.role)
     /\ result.path \in {"ranked", "explicit", "faiss"}
     /\ result.status \in {"success", "blocked", "blocked_or_empty"})
    => /\ result.context = Take(result.candidates, TopK)
       /\ (result.status \in {"blocked", "blocked_or_empty"} => result.candidates = <<>>)

\* C2 witness: an admin query with more than TopK candidates, an admin-labelled
\* chunk among the first TopK, all of the first TopK used.
C2_Witness ==
    /\ result.op = "query"
    /\ result.role = "Admin"
    /\ result.status = "success"
    /\ Len(result.candidates) > TopK
    /\ Len(result.context) = TopK
    /\ "admin" \in ContextRoles

\* C3: a role that is absent, empty or neither admin nor guest (in any letter
\* case) is treated as guest by the query operation: such a caller never gets
\* a non-public chunk in its context.
C3_UnknownRoleIsGuest ==
    (result.op = "query" /\ Lower(Str(result.role)) \notin {"admin", "guest"})
    => \A i \in DOMAIN result.context : result.context[i].meta.role = "public"

\* C4: with the corpus made of the chunk containing "Project Chimera" (labelled
\* admin by the hard filter) and the public vacation-policy chunk, the guest
\* query "Tell me about Project Chimera" sent to POST /query is answered with
\* the denial: status blocked and no generated answer.
C4_ChimeraQueryDenied ==
    (/\ result.op = "query"
     /\ result.via = "query_engine"
     /\ result.role = "guest"
     /\ result.query = ChimeraQuery
     /\ result.status # "http500"
     /\ documents = <<ChimeraText, VacationText>>
     /\ metadata[1].role = "admin"
     /\ metadata[2].role = "public")
    => (result.status = "blocked" /\ ~result.answered)

CorpusLoaded == index # NoIndex

MemLengthsAgree == index = Len(metadata) /\ index = Len(documents)

FilesPresent == file_index # NoIndex \/ file_meta.exists

FilesAgree ==
    /\ file_index # NoIndex
    /\ file_meta.exists
    /\ file_index = Len(file_meta.metadata)
    /\ file_index = Len(file_meta.documents)

\* C7: after every successful IngestionManager.ingest_pdf, the very first one
\* on a corpus not persisted yet included, len(documents) = len(metadata) =
\* number of vectors in the index, in memory and in the persisted files.
C7_LengthsAgreeAfterIngest ==
    (impl = "src" /\ result.op = "ingest" /\ result.status = "success")
    => (MemLengthsAgree /\ FilesAgree)

\* C8: a persisted corpus whose index count, metadata length and documents
\* length are not all equal is rejected at load: a query that found such a
\* corpus loaded ends in an error, it is never served from it.
C8_MismatchRejectedAtLoad ==
    (result.op = "query" /\ CorpusLoaded /\ ~MemLengthsAgree)
    => result.status \in {"http500", "error"}

\* C9: at every point in time, also when a write of the persistence step
\* fails, the persisted index file and the persisted metadata file describe
\* the same number of chunks (stated here for the GuardRAG engine, whose first
\* ingestion always finds a persisted corpus).
C9_FilesAgreeAlways ==
    (impl = "core" /\ FilesPresent) => FilesAgree

----------------------------------------------------------------------------
(* Statement-level runs of src: POST /upload runs ingest_pdf on the event loop *)
(* thread while POST /query runs QueryManager.query on a worker thread.  Both  *)
(* work on the one IngestionManager; no lock is taken anywhere.  up and qr are *)
(* the two threads' positions and locals.  self.metadata and self.documents    *)
(* are list objects: the query's docs and metas are references to them, which  *)
(* see an extend() made later and keep the old list when the attribute is      *)
(* bound to a new one.                                                         *)

Live == [live |-> TRUE, snap |-> <<>>]
Kept(list) == [live |-> FALSE, snap |-> list]

\* what a reference shows now, current being the list the attribute is bound to
View(ref, current) == IF ref.live THEN current ELSE ref.snap

FilesExist == file_index # NoIndex /\ file_meta.exists

\* the query thread's references after self.documents is bound to a new list
RebindDocuments(q) ==
    IF q.pc \in {"ref_metas", "use"} /\ q.docs.live
    THEN [q EXCEPT !.docs = Kept(documents)] ELSE q

\* the query thread's references after self.metadata is bound to a new list
RebindMetadata(q) ==
    IF q.pc = "use" /\ q.metas.live
    THEN [q EXCEPT !.metas = Kept(metadata)] ELSE q

InitConc ==
    /\ impl = "src"
    /\ hard_patterns = DefaultPatterns
    /\ sentinel_available = FALSE
    /\ index = NoIndex
    /\ metadata = <<>>
    /\ documents = <<>>
    /\ file_index = NoIndex
    /\ file_meta = NoMetaFile
    /\ result = NoResult
    /\ assessed = NoAssess
    /\ up = Idle
    /\ qr = Idle
    /\ LAST_TRACE = NoTrace
    /\ loop = NoRequests
    /\ config = DefaultConfig
    /\ managers = AllManagers
    /\ models = NoModels
    /\ chunker = NoChunker

StaticConc ==
    UNCHANGED <<impl, hard_patterns, sentinel_available, assessed, result, loop, config,
                managers, models, chunker>>

FrameConc == StaticConc /\ UNCHANGED LAST_TRACE

\* the largest count any part of the corpus shows, in memory or on disk
ConcSize ==
    Max(Max(Max(file_index, index), Max(Len(documents), Len(metadata))),
        Max(Len(file_meta.documents), Len(file_meta.metadata)))

\* ingest_pdf is entered; _load_db tests that both files exist
u_begin ==
    /\ up.pc = "idle"
    /\ \E doc_id \in {"a.pdf"}, chunks \in Docs \ {ShortDoc}, sent \in IngestSentinel :
        /\ ConcSize + Len(chunks) <= MaxCorpus
        /\ up' = [pc |-> IF FilesExist THEN "load_index" ELSE "add",
                  doc_id |-> doc_id, chunks |-> chunks,
                  new_metadata |-> [i \in DOMAIN chunks |->
                        Meta(doc_id, i - 1,
                             assess_chunk(hard_patterns, chunks[i], sent))],
                  data |-> NoMetaFile, fresh |-> FALSE]
    /\ UNCHANGED <<index, metadata, documents, file_index, file_meta, qr>>
    /\ FrameConc

\* _load_db: self.index = faiss.read_index(...)
u_load_index ==
    /\ up.pc = "load_index"
    /\ index' = file_index
    /\ up' = [up EXCEPT !.pc = "load_data"]
    /\ UNCHANGED <<metadata, documents, file_index, file_meta, qr>>
    /\ FrameConc

\* _load_db: data = pickle.load(f)
u_load_data ==
    /\ up.pc = "load_data"
    /\ up' = [up EXCEPT !.pc = "set_meta", !.data = file_meta]
    /\ UNCHANGED <<index, metadata, documents, file_index, file_meta, qr>>
    /\ FrameConc

\* _load_db: self.metadata = data.get("metadata", [])
u_set_meta ==
    /\ up.pc = "set_meta"
    /\ metadata' = up.data.metadata
    /\ qr' = RebindMetadata(qr)
    /\ up' = [up EXCEPT !.pc = "set_docs"]
    /\ UNCHANGED <<index, documents, file_index, file_meta>>
    /\ FrameConc

\* _load_db: self.documents = data.get("documents", [])
u_set_docs ==
    /\ up.pc = "set_docs"
    /\ documents' = up.data.documents
    /\ qr' = RebindDocuments(qr)
    /\ up' = [up EXCEPT !.pc = "add"]
    /\ UNCHANGED <<index, metadata, file_index, file_meta>>
    /\ FrameConc

\* "if self.index is None": a new empty IndexFlatIP, else self.index.add(...)
u_add ==
    /\ up.pc = "add"
    /\ index' = IF index = NoIndex THEN 0 ELSE index + Len(up.chunks)
    /\ up' = [up EXCEPT !.pc = "docs", !.fresh = (index = NoIndex)]
    /\ UNCHANGED <<metadata, documents, file_index, file_meta, qr>>
    /\ FrameConc

\* self.documents = chunks, else self.documents.extend(chunks)
u_docs ==
    /\ up.pc = "docs"
    /\ documents' = IF up.fresh THEN up.chunks ELSE documents \o up.chunks
    /\ qr' = IF up.fresh THEN RebindDocuments(qr) ELSE qr
    /\ up' = [up EXCEPT !.pc = "meta"]
    /\ UNCHANGED <<index, metadata, file_index, file_meta>>
    /\ FrameConc

\* self.metadata = new_metadata, else self.metadata.extend(new_metadata)
u_meta ==
    /\ up.pc = "meta"
    /\ metadata' = IF up.fresh THEN up.new_metadata ELSE metadata \o up.new_metadata
    /\ qr' = IF up.fresh THEN RebindMetadata(qr) ELSE qr
    /\ up' = [up EXCEPT !.pc = "write_index"]
    /\ UNCHANGED <<index, documents, file_index, file_meta>>
    /\ FrameConc

\* _save_db: faiss.write_index(self.index, ...)
u_write_index ==
    /\ up.pc = "write_index"
    /\ file_index' = index
    /\ up' = [up EXCEPT !.pc = "write_meta"]
    /\ UNCHANGED <<index, metadata, documents, file_meta, qr>>
    /\ FrameConc

\* _save_db: pickle.dump({"metadata": ..., "documents": ...}, f)
u_write_meta ==
    /\ up.pc = "write_meta"
    /\ file_meta' = MetaFile(metadata, documents)
    /\ up' = [up EXCEPT !.pc = "done"]
    /\ UNCHANGED <<index, metadata, documents, file_index, qr>>
    /\ FrameConc

\* ingest_pdf returns and /upload answers
u_return ==
    /\ up.pc = "done"
    /\ up' = Idle
    /\ UNCHANGED <<index, metadata, documents, file_index, file_meta, qr>>
    /\ FrameConc

\* QueryManager.query is entered; _load_db tests that both files exist
q_begin ==
    /\ qr.pc = "idle"
    /\ \E role \in {"admin", "guest"} :
        qr' = [pc |-> IF FilesExist THEN "load_index" ELSE "ref_docs",
               role |-> role, data |-> NoMetaFile, docs |-> Live, metas |-> Live,
               resp |-> NoResult]
    /\ UNCHANGED <<index, metadata, documents, file_index, file_meta, up>>
    /\ FrameConc

\* _load_db: self.index = faiss.read_index(...)
q_load_index ==
    /\ qr.pc = "load_index"
    /\ index' = file_index
    /\ qr' = [qr EXCEPT !.pc = "load_data"]
    /\ UNCHANGED <<metadata, documents, file_index, file_meta, up>>
    /\ FrameConc

\* _load_db: data = pickle.load(f)
q_load_data ==
    /\ qr.pc = "load_data"
    /\ qr' = [qr EXCEPT !.pc = "set_meta", !.data = file_meta]
    /\ UNCHANGED <<index, metadata, documents, file_index, file_meta, up>>
    /\ FrameConc

\* _load_db: self.metadata = data.get("metadata", [])
q_set_meta ==
    /\ qr.pc = "set_meta"
    /\ metadata' = qr.data.metadata
    /\ qr' = [qr EXCEPT !.pc = "set_docs"]
    /\ UNCHANGED <<index, documents, file_index, file_meta, up>>
    /\ FrameConc

\* _load_db: self.documents = data.get("documents", [])
q_set_docs ==
    /\ qr.pc = "set_docs"
    /\ documents' = qr.data.documents
    /\ qr' = [qr EXCEPT !.pc = "ref_docs"]
    /\ UNCHANGED <<index, metadata, file_index, file_meta, up>>
    /\ FrameConc

\* docs = self.ingestion_manager.documents
q_ref_docs ==
    /\ qr.pc = "ref_docs"
    /\ qr' = [qr EXCEPT !.pc = "ref_metas", !.docs = Live]
    /\ UNCHANGED <<index, metadata, documents, file_index, file_meta, up>>
    /\ FrameConc

\* metas = self.ingestion_manager.metadata
q_ref_metas ==
    /\ qr.pc = "ref_metas"
    /\ qr' = [qr EXCEPT !.pc = "use", !.metas = Live]
    /\ UNCHANGED <<index, metadata, documents, file_index, file_meta, up>>
    /\ FrameConc

\* the lists as the query thread reads them now
QueryView == Mem(index, View(qr.metas, metadata), View(qr.docs, documents))

\* candidate scan, role filter and generation on what docs and metas show; the
\* thread keeps the body of the HTTP response it is about to send
q_use ==
    /\ qr.pc = "use"
    /\ \E ranking \in Perms(Len(QueryView.documents)) :
        LET r == QueryManager_query("query_engine", QueryView, VacationQuery,
                                    qr.role, NoIndices, ranking, "none")
        IN qr' = [pc |-> "done", role |-> qr.role,
                  resp |-> [status |-> r.status, sources |-> r.sources,
                            answered |-> r.answered]]
    /\ UNCHANGED <<index, metadata, documents, file_index, file_meta, up>>
    /\ FrameConc

\* query_engine stores the trace in the flight recorder and /query answers
q_return ==
    /\ qr.pc = "done"
    /\ qr' = Idle
    /\ LAST_TRACE' = Recorded(LAST_TRACE, qr.resp)
    /\ UNCHANGED <<index, metadata, documents, file_index, file_meta, up>>
    /\ StaticConc

NextConc ==
    \/ u_begin
    \/ u_load_index
    \/ u_load_data
    \/ u_set_meta
    \/ u_set_docs
    \/ u_add
    \/ u_docs
    \/ u_meta
    \/ u_write_index
    \/ u_write_meta
    \/ u_return
    \/ q_begin
    \/ q_load_index
    \/ q_load_data
    \/ q_set_meta
    \/ q_set_docs
    \/ q_ref_docs
    \/ q_ref_metas
    \/ q_use
    \/ q_return

SpecConc == InitConc /\ [][NextConc]_vars

\* C10: a query running while an ingestion is in progress never reads a corpus
\* in which only some of the lists have grown (docs and metas show the same
\* number of chunks whenever it reads them), and its reload from disk leaves
\* the ingestion whole (what the ingestion persists has as many documents as
\* metadata entries).
C10_QuerySeesWholeCorpus ==
    /\ (qr.pc = "use" => Len(QueryView.documents) = Len(QueryView.metadata))
    /\ (up.pc = "done" => Len(file_meta.documents) = Len(file_meta.metadata))

----------------------------------------------------------------------------
(* Assessment runs: the configured pattern list is drawn at start-up, and   *)
(* every step assesses one chunk with it and with one more matching pattern *)

InitAssess ==
    /\ impl = "src"
    /\ hard_patterns \in SeqsUpTo(PatternPool, MaxPatterns)
    /\ sentinel_available \in BOOLEAN
    /\ index = NoIndex
    /\ metadata = <<>>
    /\ documents = <<>>
    /\ file_index = NoIndex
    /\ file_meta = NoMetaFile
    /\ result = NoResult
    /\ assessed = NoAssess
    /\ up = Idle
    /\ qr = Idle
    /\ LAST_TRACE = NoTrace
    /\ loop = NoRequests
    /\ config = DefaultConfig
    /\ managers = AllManagers
    /\ models = NoModels
    /\ chunker = NoChunker

AssessChunk ==
    \E text \in Texts, sent \in SentinelOutcomes(sentinel_available),
       extra \in PatternPool, pos \in 0..Len(hard_patterns) :
        /\ extra.words \subseteq text
        /\ assessed' = [done |-> TRUE, text |-> text, sent |-> sent, extra |-> extra,
                        hf |-> HardFilterCheck(hard_patterns, text),
                        heur |-> KeywordHeuristicCheck(text),
                        fallback |-> classify_chunk_fallback(text),
                        consulted |-> HeuristicConsulted(sent),
                        base |-> assess_chunk(hard_patterns, text, sent),
                        ext |-> assess_chunk(InsertAt(hard_patterns, pos, extra), text, sent),
                        corehf |-> HardFilterInspect(text),
                        core |-> core_label_chunk(text, sentinel_available, sent)]
        /\ UNCHANGED <<impl, hard_patterns, sentinel_available, index, metadata,
                       documents, file_index, file_meta, result, up, qr, LAST_TRACE,
                       loop, config, managers, models, chunker>>

NextAssess == AssessChunk

SpecAssess == InitAssess /\ [][NextAssess]_vars

\* C5: assessing a chunk with one more hard pattern that matches its text never
\* gives a less restrictive label than assessing it without that pattern: if the
\* label without it is admin, the label with it is admin.
C5_AssessMonotonic ==
    assessed.done => (assessed.base.role = "admin" => assessed.ext.role = "admin")

\* C5 witness: the chunk was forced admin already, and a further pattern whose
\* tag forces nothing matched it and added its tag.
C5_Witness ==
    /\ assessed.done
    /\ assessed.base.role = "admin"
    /\ assessed.hf.forced_role = "admin"
    /\ assessed.extra.tag \notin ForcedTags
    /\ Len(assessed.ext.tags) = Len(assessed.base.tags) + 1

\* C6: within one assessment, when the hard filter forces admin the returned
\* label is admin whatever the sentinel (any label and score, unavailable, error)
\* and the keyword heuristic say, in SecurityManager.assess_chunk and in the
\* labelling of GuardRAG.ingest_pdf alike.
C6_ForcedAdminKept ==
    assessed.done =>
        /\ (assessed.hf.forced_role = "admin" => assessed.base.role = "admin")
        /\ (assessed.corehf.forced_role = "admin" => assessed.core.role = "admin")

\* C6 witness: the hard filter forced admin and the sentinel confidently said
\* "public" about the same chunk.
C6_Witness ==
    /\ assessed.done
    /\ assessed.hf.forced_role = "admin"
    /\ assessed.corehf.forced_role = "admin"
    /\ assessed.sent.method = "zeroshot"
    /\ assessed.sent.label = "public"
    /\ assessed.sent.score >= SentinelThreshold
    /\ assessed.base.role = "admin"

----------------------------------------------------------------------------
(* Event-loop runs of src: clients post uploads at any time; upload_document *)
(* is a coroutine that never awaits, so the event loop starts the next one   *)
(* only when the running one has returned.  The steps of ingest_pdf are the  *)
(* statement-level steps above.                                              *)

MaxUploads == 2     \* upload requests a run issues

RECURSIVE ChunksOf(_)
\* the chunks of a list of upload requests, in request order
ChunksOf(reqs) ==
    IF reqs = <<>> THEN <<>> ELSE Head(reqs).chunks \o ChunksOf(Tail(reqs))

RECURSIVE SourcesOf(_)
\* the source of every chunk of a list of upload requests, in request order
SourcesOf(reqs) ==
    IF reqs = <<>> THEN <<>>
    ELSE [i \in DOMAIN Head(reqs).chunks |-> Head(reqs).doc_id] \o SourcesOf(Tail(reqs))

EventLoopIdle_Always(u) == TRUE

\* the event loop runs one coroutine at a time: the next upload_document starts
\* when the running one, which has no await, has returned
EventLoopIdle(u) == u.pc = "idle"

\* a client posts /upload; the request waits for the event loop
issue_upload ==
    /\ Len(loop.queue) + Len(loop.started) < MaxUploads
    /\ \E doc_id \in DocIds, chunks \in Docs \ {ShortDoc} :
        /\ Len(ChunksOf(loop.queue)) + Len(ChunksOf(loop.started)) + Len(chunks)
                <= MaxCorpus
        /\ loop' = [loop EXCEPT
                        !.queue = Append(@, [doc_id |-> doc_id, chunks |-> chunks]),
                        !.overlapped = @ \/ loop.queue # <<>> \/ up.pc # "idle"]
    /\ UNCHANGED <<index, metadata, documents, file_index, file_meta, up, qr,
                   LAST_TRACE, impl, hard_patterns, sentinel_available, assessed,
                   result, config, managers, models, chunker>>

\* the event loop starts upload_document for the oldest waiting request:
\* ingest_pdf is entered and _load_db tests that both files exist
loop_begin ==
    /\ loop.queue # <<>>
    /\ EventLoopIdle(up)
    /\ \E sent \in IngestSentinel :
        LET req == Head(loop.queue)
        IN /\ up' = [pc |-> IF FilesExist THEN "load_index" ELSE "add",
                     doc_id |-> req.doc_id, chunks |-> req.chunks,
                     new_metadata |-> [i \in DOMAIN req.chunks |->
                           Meta(req.doc_id, i - 1,
                                assess_chunk(hard_patterns, req.chunks[i], sent))],
                     data |-> NoMetaFile, fresh |-> FALSE]
           /\ loop' = [loop EXCEPT !.queue = Tail(@), !.started = Append(@, req)]
    /\ UNCHANGED <<index, metadata, documents, file_index, file_meta, qr, LAST_TRACE,
                   impl, hard_patterns, sentinel_available, assessed, result, config,
                   managers, models, chunker>>

NextLoop ==
    \/ issue_upload
    \/ loop_begin
    \/ u_load_index
    \/ u_load_data
    \/ u_set_meta
    \/ u_set_docs
    \/ u_add
    \/ u_docs
    \/ u_meta
    \/ u_write_index
    \/ u_write_meta
    \/ u_return

SpecLoop == InitConc /\ [][NextLoop]_vars

\* every upload the loop was given has run to its end
UploadsComplete == loop.queue = <<>> /\ up.pc = "idle"

\* C11: ingestions are serialized: once the ingestions issued concurrently have
\* all completed, the documents and the metadata, in memory and persisted, hold
\* every chunk of every one of them, in the order the loop ran them.
C11_NoIngestLost ==
    UploadsComplete =>
        /\ documents = ChunksOf(loop.started)
        /\ [i \in DOMAIN metadata |-> metadata[i].source] = SourcesOf(loop.started)
        /\ (loop.started # <<>> =>
                file_meta = MetaFile(metadata, documents))

\* the second upload was issued while the first was waiting or running, and
\* both have completed
C11_Witness ==
    /\ UploadsComplete
    /\ loop.overlapped
    /\ Len(loop.started) = MaxUploads
    /\ Len(documents) = Len(ChunksOf(loop.started))
    /\ Len(documents) > Len(loop.started[1].chunks)

----------------------------------------------------------------------------
(* Frame of a successful ingestion *)

\* the step is a successful IngestionManager.ingest_pdf
IngestSucceeds ==
    /\ impl = "src"
    /\ result = NoResult
    /\ result'.op = "ingest"
    /\ result'.status = "success"

\* C12: a successful ingestion grows the corpus it loaded by exactly
\* chunks_added chunks, appended at the end: the chunks that were there keep
\* their text, label, metadata and position, the new ones carry the request's
\* docId as source, and the persisted files hold the same lists.
C12_IngestAppends ==
    [][IngestSucceeds =>
        LET before == load_db(mem, disk)
            n == Len(before.documents)
            k == result'.chunks_added
        IN /\ Len(documents') = n + k
           /\ Len(metadata') = Len(before.metadata) + k
           /\ SubSeq(documents', 1, n) = before.documents
           /\ SubSeq(metadata', 1, Len(before.metadata)) = before.metadata
           /\ \A i \in (Len(before.metadata) + 1)..Len(metadata') :
                  metadata'[i].source = result'.doc_id
           /\ file_meta' = MetaFile(metadata', documents')]_vars

\* the same text was ingested under two docIds and the corpus holds both sets,
\* the first where it was
C12_Witness ==
    /\ impl = "src"
    /\ result.op = "ingest"
    /\ result.status = "success"
    /\ result.chunks_added = 1
    /\ Len(documents) = 2
    /\ Len(metadata) = 2
    /\ documents[1] = documents[2]
    /\ metadata[1].source = "a.pdf"
    /\ metadata[2].source = "b.pdf"
    /\ result.doc_id = "b.pdf"

----------------------------------------------------------------------------
(* Rejected documents *)

\* the step is an ingestion that rejects its document as empty or unreadable
IngestRejects ==
    /\ result = NoResult
    /\ result'.op = "ingest"
    /\ result'.detail \in {EmptyPdf, CouldNotRead, "read_pdf"}

\* the corpus an ingestion works on: what the load at its start leaves in memory
LoadedCorpus ==
    IF impl = "src" THEN load_db(mem, disk) ELSE load_resources(mem, disk).mem

----------------------------------------------------------------------------
(* Responses of queries that admit nothing *)

\* the query reached its role filter without raising and admitted no chunk to
\* the context
NothingAdmitted ==
    /\ result.op = "query"
    /\ result.path # "none"
    /\ result.status \notin {"http500", "error"}
    /\ result.context = <<>>

\* C14: a query that admits no chunk to its context (no candidate, or every
\* candidate removed by the role filter) answers with status
\* "blocked_or_empty" and an empty sources list, and raises nothing.
C14_NothingAdmittedStatus ==
    NothingAdmitted =>
        /\ result.status = "blocked_or_empty"
        /\ result.sources = <<>>

\* the src service answered a query on a corpus without chunks, its models loaded
EmptyCorpusQueried ==
    /\ impl = "src"
    /\ result.op = "query"
    /\ documents = <<>>
    /\ result.detail # "load_model"

\* C15: QueryManager.query on a corpus with no persisted files or no chunks,
\* whatever the role, answers normally with nothing found (status "success",
\* no sources, nothing raised), and a query whose candidates the role filter
\* all removed never carries that status.
C15_EmptyCorpusAnswer ==
    /\ EmptyCorpusQueried =>
            /\ result.status = "success"
            /\ result.detail = ""
            /\ ~result.answered
            /\ result.sources = <<>>
    /\ (impl = "src" /\ NothingAdmitted) => result.status # "success"

\* a guest queried the src service before anything was persisted
C15_Witness ==
    /\ EmptyCorpusQueried
    /\ ~FilesPresent
    /\ result.role = "guest"
    /\ result.status = "success"

----------------------------------------------------------------------------
(* Explicit indices *)

\* C16: whenever the caller passes allowed_indices, the empty list included,
\* the ranking is skipped and every candidate is one of the passed indices.
C16_ExplicitIndicesOnly ==
    (result.op = "query" /\ result.allowed_indices.given /\ result.status # "http500")
    => /\ result.path \in {"explicit", "none"}
       /\ \A i \in DOMAIN result.candidates :
            result.candidates[i].idx \in Range(result.allowed_indices.list)

----------------------------------------------------------------------------
(* Sources of a successful response *)

\* C17: the sources of a successful response are the source document
\* identifiers of the chunks admitted to the context, each once, in the order
\* of their first occurrence in the ranking.
C17_SourcesAreDedupedIds ==
    (result.op = "query" /\ result.answered)
    => result.sources =
            Dedup([i \in DOMAIN result.context |->
                        [source |-> result.context[i].meta.source]], {})

----------------------------------------------------------------------------
(* Chunk identifiers *)

\* C19: after any sequence of ingestions, two under the same docId included, no
\* two chunks of the corpus carry the same chunkId (metadata doc_id).
C19_ChunkIdsUnique ==
    \A i, j \in DOMAIN metadata :
        i # j => metadata[i].doc_id # metadata[j].doc_id

----------------------------------------------------------------------------
(* The flight recorder *)

\* C20: after any sequence of /query requests the last-trace slot holds only
\* the trace of the most recent completed query and its timestamp: no key
\* written by an earlier query is left in it.
C20_LastTraceIsLatest ==
    \A k \in DOMAIN LAST_TRACE : LAST_TRACE[k] = "latest"

----------------------------------------------------------------------------
(* Start-up runs of src: config.yaml holds any of the configurations below;  *)
(* importing config.settings builds the Config object, lifespan builds the   *)
(* managers, and the app then serves /query.                                 *)

\* the configurations a config.yaml can hold: well_typed is whether every value
\* has the type its pydantic field declares; thresholds are in hundredths
Configs ==
    [well_typed : BOOLEAN,
     chunk_size : {100, 500},
     chunk_overlap : {0, 50, 100, 500, 600},
     sentinel_threshold : {0 - 10, SentinelThreshold, 150},
     patterns_compile : BOOLEAN]

InitConfig ==
    /\ impl = "src"
    /\ hard_patterns = DefaultPatterns
    /\ sentinel_available = FALSE
    /\ index = NoIndex
    /\ metadata = <<>>
    /\ documents = <<>>
    /\ file_index = NoIndex
    /\ file_meta = NoMetaFile
    /\ result = NoResult
    /\ assessed = NoAssess
    /\ up = Idle
    /\ qr = Idle
    /\ LAST_TRACE = NoTrace
    /\ loop = NoRequests
    /\ config \in Configs
    /\ managers = NoManagers
    /\ models = NoModels
    /\ chunker = NoChunker

\* config = load_config(): Config(**data) checks the types of the values and
\* nothing else; a ValidationError ends the import and with it the process
load_config ==
    /\ managers.phase = "import"
    /\ managers' = [managers EXCEPT !.phase = IF config.well_typed THEN "loaded"
                                              ELSE "failed"]
    /\ UNCHANGED <<impl, hard_patterns, sentinel_available, index, metadata, documents,
                   file_index, file_meta, result, assessed, up, qr, LAST_TRACE, loop,
                   config, models, chunker>>

\* lifespan: each constructor runs in its own try/except that sets the global
\* to None when it raises; only SecurityManager reads a value that can make it
\* raise (re.compile of a hard pattern); then the app serves
lifespan ==
    /\ managers.phase = "loaded"
    /\ managers' = [model_manager |-> TRUE,
                    security_manager |-> config.patterns_compile,
                    ingestion_manager |-> TRUE,
                    query_manager |-> TRUE,
                    phase |-> "serving"]
    /\ UNCHANGED <<impl, hard_patterns, sentinel_available, index, metadata, documents,
                   file_index, file_meta, result, assessed, up, qr, LAST_TRACE, loop,
                   config, models, chunker>>

NextConfig ==
    \/ load_config
    \/ lifespan
    \/ query_engine
    \/ Deliver

SpecConfig == InitConfig /\ [][NextConfig]_vars

\* a configuration the specification calls valid
ValidConfig(c) ==
    /\ c.well_typed
    /\ c.chunk_overlap < c.chunk_size
    /\ c.patterns_compile
    /\ 0 <= c.sentinel_threshold
    /\ c.sentinel_threshold <= 100

\* C18: an invalid configuration (chunk overlap >= chunk size, a hard pattern
\* that does not compile, an invalid threshold) makes start-up fail: the
\* service never serves, and never answers a request, with such a configuration.
C18_InvalidConfigNeverServes ==
    (managers.phase = "serving" \/ result.op # "none") => ValidConfig(config)

----------------------------------------------------------------------------
(* The label SecurityManager.assess_chunk returns *)

\* the sentinel returned a zero-shot label with a score at or above the threshold
\* and the label is a sensitive category
SentinelSaysSensitive(sent) ==
    /\ sent.method = "zeroshot"
    /\ sent.score >= SentinelThreshold
    /\ sent.label \in SensitiveLabels

----------------------------------------------------------------------------
(* The forced role of the hard filter *)

\* the tags of the rules the always-sensitive set is said to cover: project code
\* name, government id, payment card, "confidential", "internal use only" and
\* "trade secret", under the tag names the repository gives them
AlwaysSensitiveTags ==
    {"project_chimera", "ssn", "pii_ssn", "credit_card", "pii_cc",
     "confidential", "internal", "trade_secret"}

\* C22: HardFilter.check returns forced role admin if and only if at least one
\* fired tag is in the always-sensitive set, which covers the project-code-name,
\* government-id, payment-card, "confidential", "internal use only" and
\* "trade secret" rules; otherwise the forced role is null.
C22_ForcedRoleCoversSensitiveRules ==
    assessed.done =>
        /\ assessed.hf.forced_role \in {"admin", None}
        /\ (assessed.hf.forced_role = "admin") <=>
               (\E t \in AlwaysSensitiveTags : t \in Range(assessed.hf.tags))
        /\ (assessed.corehf.forced_role = "admin") <=>
               (\E t \in AlwaysSensitiveTags : t \in Range(assessed.corehf.tags))

\* the same statement for the tags HardFilter.check of src/security.py does list
C22_ForcedRoleFollowsListedTags ==
    assessed.done =>
        ((assessed.hf.forced_role = "admin") <=>
             (\E t \in ForcedTags : t \in Range(assessed.hf.tags)))

----------------------------------------------------------------------------
(* The keyword heuristic *)

\* the side the keyword rule is said to pick for given hit counts: the side
\* with strictly more hits; on a tie public only when there are public hits
KeywordSide(sens_hits, pub_hits) ==
    IF sens_hits > pub_hits THEN "sensitive"
    ELSE IF pub_hits > sens_hits THEN "public"
    ELSE IF pub_hits > 0 THEN "public"
    ELSE "sensitive"

\* C23: the keyword heuristic returns the side with strictly more hits; on a
\* tie it returns public only when the public hit count is nonzero, and
\* otherwise (in particular when nothing matched at all) it returns sensitive.
C23_KeywordHeuristicSide ==
    assessed.done =>
        LET sens_hits == Cardinality(SensitiveKeywords \cap assessed.text)
            pub_hits == Cardinality(PublicKeywords \cap assessed.text)
        IN /\ assessed.heur.label = KeywordSide(sens_hits, pub_hits)
           /\ assessed.fallback = KeywordSide(sens_hits, pub_hits)

\* the fallback of backend/security.py alone follows the rule
C23_FallbackSide ==
    assessed.done =>
        assessed.fallback =
            KeywordSide(Cardinality(SensitiveKeywords \cap assessed.text),
                        Cardinality(PublicKeywords \cap assessed.text))

----------------------------------------------------------------------------
(* Guest filtering when a chunk's label cannot be determined *)

MaxCands == 3       \* length of the candidate list in guest-filter runs

\* what looking up a candidate's role finds: a role, a role of None, a record
\* without the key "role", no metadata record at all, or a lookup that raises
Absent == "<absent>"
NoRecord == "<no record>"
LookupRaises == "<raises>"
LabelLookups == {"public", "admin", None, Absent, NoRecord, LookupRaises}

\* src/query.py: meta = res.get("meta", {}); doc_role = meta.get("role") or "public"
SrcDocRole(l) == IF l \in {None, Absent, NoRecord} THEN "public" ELSE l

\* core.py: meta = res.get("meta", {}) or {}; doc_role = meta.get("role", "public")
CoreDocRole(l) == IF l \in {Absent, NoRecord} THEN "public" ELSE l

\* main.py: engine.metadata[i].get("role", "public") if engine.metadata else
\* "public", and "public" again when the lookup raises
MainMetaRole(l) == IF l \in {Absent, NoRecord, LookupRaises} THEN "public" ELSE l

\* the candidate list a sequence of lookups stands for, roles resolved by f
ResolvedCands(lookups, f(_)) ==
    [i \in DOMAIN lookups |->
        [idx |-> i - 1, content |-> PlainText,
         meta |-> [source |-> "a.pdf", role |-> f(lookups[i])]]]

Idxs(cands) == [i \in DOMAIN cands |-> cands[i].idx]

GuestFilters == {"QueryManager.query", "GuardRAG.query", "query_with_rbac"}

\* the chunks the guest filter of an implementation lets through
GuestAllowed(via, lookups) ==
    IF via = "QueryManager.query"
    THEN Idxs(RoleFilter(ResolvedCands(lookups, SrcDocRole), "guest", <<>>))
    ELSE IF via = "GuardRAG.query"
    THEN Idxs(CoreRoleFilter(ResolvedCands(lookups, CoreDocRole), "guest", <<>>))
    ELSE IndicesWhere(0, Len(lookups),
                      {i \in 0..(Len(lookups) - 1) : MainMetaRole(lookups[i + 1]) = "public"})

\* a guest request whose candidates have the given lookups is filtered; a lookup
\* can raise only inside the try block of query_with_rbac
guest_filter ==
    /\ result = NoResult
    /\ \E via \in GuestFilters, lookups \in SeqsUpTo(LabelLookups, MaxCands) :
        /\ lookups # <<>>
        /\ via # "query_with_rbac" => LookupRaises \notin Range(lookups)
        /\ result' = [op |-> "guest_filter", via |-> via, lookups |-> lookups,
                      allowed |-> GuestAllowed(via, lookups), status |-> "filtered"]
    /\ Static
    /\ UNCHANGED <<index, metadata, documents, file_index, file_meta, LAST_TRACE>>

NextFilter == guest_filter \/ Deliver

SpecFilter == InitConc /\ [][NextFilter]_vars

\* C24: when determining a chunk's label fails during guest filtering (no
\* metadata record, a lookup that raises, a role that is absent or None), the
\* chunk is withheld from the guest and never treated as public: every chunk
\* the filter lets through has a role that was found and is public.
C24_UnlabelledChunkWithheld ==
    result.op = "guest_filter" =>
        \A i \in DOMAIN result.allowed :
            result.lookups[result.allowed[i] + 1] = "public"

\* chunks labelled admin are withheld by every filter
C24_AdminWithheld ==
    result.op = "guest_filter" =>
        \A i \in DOMAIN result.allowed :
            result.lookups[result.allowed[i] + 1] # "admin"

----------------------------------------------------------------------------
(* Retrieval runs: one query against a corpus whose relevance order is known *)

\* the chunks of the corpora queried in retrieval runs
ShortWordText == {"me", "us"}
ChunkKinds == {[role |-> r, text |-> t] : r \in {"public", "admin"},
                                          t \in {VacationText, PlainText, ShortWordText}}

CorpusOf(chunks) ==
    Mem(Len(chunks),
        [i \in DOMAIN chunks |->
            [source |-> "a.pdf", doc_id |-> <<"a.pdf", "chunk", i - 1>>, tags |-> <<>>,
             role |-> chunks[i].role]],
        [i \in DOMAIN chunks |-> chunks[i].text])

\* a response together with the corpus, the order argsort(-sims) gave and the
\* set of chunks whose similarity reached the threshold
WithRun(r, run) ==
    [k \in DOMAIN r \cup DOMAIN run |-> IF k \in DOMAIN run THEN run[k] ELSE r[k]]

Retrievers == {"query_engine", "GuardRAG.query", "query_with_rbac"}

\* the answer of one implementation to a ranked query
Retrieved(via, m, query, role, above, ranking) ==
    IF via = "query_engine"
    THEN QueryManager_query(via, m, query, role, NoIndices, ranking, "none")
    ELSE IF via = "GuardRAG.query"
    THEN GuardRAG_query(via, m, query, role, NoIndices, ranking, <<>>, "none")
    ELSE query_with_rbac(m, query, role, above, ranking, <<>>, "none")

\* the chunks above the threshold are the j most similar ones
retrieve ==
    /\ result = NoResult
    /\ \E via \in Retrievers, role \in {"guest", "admin"}, query \in Queries,
         chunks \in SeqsUpTo(ChunkKinds, MaxCands) :
          \E ranking \in Perms(Len(chunks)), j \in 0..Len(chunks) :
              LET m == CorpusOf(chunks)
                  above == {ranking[i] : i \in 1..j}
              IN /\ chunks # <<>>
                 /\ result' = WithRun(Retrieved(via, m, query, role, above, ranking),
                                      [ranking |-> ranking, above |-> above, mem |-> m])
    /\ Static
    /\ UNCHANGED <<index, metadata, documents, file_index, file_meta, LAST_TRACE>>

NextRetrieve == retrieve \/ Deliver

SpecRetrieve == InitConc /\ [][NextRetrieve]_vars

RECURSIVE InOrder(_, _)
\* the members of S in the order s lists them
InOrder(s, S) ==
    IF s = <<>> THEN <<>>
    ELSE (IF Head(s) \in S THEN <<Head(s)>> ELSE <<>>) \o InOrder(Tail(s), S)

\* the candidates of a run that its requester may read
AllowedCandidates(r) ==
    LET n == Len(r.mem.documents)
        all == 0..(n - 1)
        public == {i \in all : r.mem.metadata[i + 1].role = "public"}
        cand == IF r.via = "query_with_rbac" /\ r.role_norm # "admin"
                THEN (IF r.above # {} THEN r.above ELSE LexicalMatches(r.mem, r.query))
                ELSE all
    IN IF r.role_norm = "admin" THEN cand ELSE cand \cap public

Answered(r) == r.op = "query" /\ r.status = "success"

\* C25: the generation context of a query holds at most topK allowed chunks,
\* the highest-relevance allowed candidates, one per line in descending order
\* of relevance; this holds for the guest path of /query as for the admin path.
C25_ContextIsTopKByRelevance ==
    Answered(result) =>
        /\ Len(result.context) <= TopK
        /\ Idxs(result.context) =
               Take(InOrder(result.ranking, AllowedCandidates(result)), TopK)

\* the same statement outside the guest path of query_with_rbac
C25_RankedPathsByRelevance ==
    (Answered(result) /\ ~(result.via = "query_with_rbac" /\ result.role_norm # "admin")) =>
        /\ Len(result.context) <= TopK
        /\ Idxs(result.context) =
               Take(InOrder(result.ranking, AllowedCandidates(result)), TopK)

\* at most topK chunks, all of them allowed, on every path
C25_ContextAllowedAndBounded ==
    Answered(result) =>
        /\ Len(result.context) <= TopK
        /\ \A i \in DOMAIN result.context :
               result.context[i].idx \in AllowedCandidates(result)

----------------------------------------------------------------------------
(* The lexical fallback of the guest path *)

\* a guest request to /query of main.py in which no chunk reached the threshold
LexicalFallbackRun(r) ==
    /\ r.op = "query"
    /\ r.via = "query_with_rbac"
    /\ r.role_norm # "admin"
    /\ r.above = {}

\* the chunks holding a word of the query that is longer than 2 characters
TermMatches(r) ==
    {i \in 0..(Len(r.mem.documents) - 1) :
        \E t \in r.query : Len(t) > 2 /\ t \in r.mem.documents[i + 1]}

PublicChunks(r) ==
    {i \in 0..(Len(r.mem.metadata) - 1) : r.mem.metadata[i + 1].role = "public"}

----------------------------------------------------------------------------
(* A query and the corpus *)

\* a step in which QueryManager.query runs to its answer or its exception
QueryManagerRuns ==
    /\ result = NoResult
    /\ result'.op = "query"
    /\ result'.via \in {"query_engine", "QueryManager.query"}

\* C27: executing a query does not modify the corpus: the IngestionManager's
\* documents, metadata and index and the persisted index and metadata files are
\* the same after the query as before it, also when the in-memory corpus and
\* the persisted files differed before the query.
C27_QueryKeepsCorpus ==
    [][QueryManagerRuns =>
          UNCHANGED <<index, metadata, documents, file_index, file_meta>>]_vars

\* the persisted files are never written by a query
C27_QueryKeepsFiles ==
    [][QueryManagerRuns => UNCHANGED <<file_index, file_meta>>]_vars

\* a query changes the in-memory corpus only by replacing it with the
\* persisted one
C27_QueryOnlyReloads ==
    [][QueryManagerRuns =>
          \/ UNCHANGED <<index, metadata, documents>>
          \/ /\ index' = file_index
             /\ metadata' = file_meta.metadata
             /\ documents' = file_meta.documents]_vars

\* the same for a manager that holds a corpus when the query arrives
C27_QueryKeepsHeldCorpus ==
    [][(QueryManagerRuns /\ index # NoIndex) =>
          UNCHANGED <<index, metadata, documents>>]_vars

----------------------------------------------------------------------------
(* Model-loading runs: the requests of src/api.py's /query and of main.py's  *)
(* /debug/trace are plain def handlers and run on pool threads, so the steps *)
(* of ModelManager.load_embedding_model, ModelManager.load_llm and of        *)
(* sentinel._try_load_pipeline interleave.                                   *)

ModelsFrame ==
    UNCHANGED <<impl, hard_patterns, sentinel_available, index, metadata, documents,
                file_index, file_meta, result, assessed, up, qr, LAST_TRACE, loop,
                config, managers, chunker>>

Thread(t) == models.threads[t]

\* the state after thread t moves to pc
Goto(ms, t, pc) == [ms EXCEPT !.threads[t].pc = pc]

\* a load is under way in another thread: the flag is set, the slot is not yet
PipelineLoading(t) == \E u \in Threads \ {t} : Thread(u).pc = "s_load"

\* a request arrives on an idle thread: a query, or a text to classify
m_begin ==
    \E t \in Threads, pc \in {"e_check", "s_check"} :
        /\ Thread(t).pc = "idle"
        /\ models' = Goto(models, t, pc)
        /\ ModelsFrame

\* load_embedding_model: if self.embedding_model is None
e_check ==
    \E t \in Threads :
        /\ Thread(t).pc = "e_check"
        /\ models' = Goto(models, t, IF models.embedding_model = None THEN "e_load"
                                     ELSE "l_check")
        /\ ModelsFrame

\* self.embedding_model = SentenceTransformer(...), or the exception is re-raised
e_load ==
    \E t \in Threads, ok \in BOOLEAN :
        /\ Thread(t).pc = "e_load"
        /\ models' = IF ok
                     THEN [Goto(models, t, "l_check") EXCEPT
                              !.embedding_model = "loaded", !.inits.embedding = @ + 1]
                     ELSE [models EXCEPT !.threads[t] = IdleThread]
        /\ ModelsFrame

\* load_llm: if self.llm_model is None or self.llm_tokenizer is None
l_check ==
    \E t \in Threads :
        /\ Thread(t).pc = "l_check"
        /\ models' = Goto(models, t,
                          IF models.llm_model = None \/ models.llm_tokenizer = None
                          THEN "l_tok" ELSE "use")
        /\ ModelsFrame

\* self.llm_tokenizer = AutoTokenizer.from_pretrained(...)
l_tok ==
    \E t \in Threads :
        /\ Thread(t).pc = "l_tok"
        /\ models' = [Goto(models, t, "l_model") EXCEPT !.llm_tokenizer = "loaded"]
        /\ ModelsFrame

\* self.llm_model = AutoModelForCausalLM.from_pretrained(...), or the exception
\* is re-raised
l_model ==
    \E t \in Threads, ok \in BOOLEAN :
        /\ Thread(t).pc = "l_model"
        /\ models' = IF ok
                     THEN [Goto(models, t, "l_eval") EXCEPT
                              !.llm_model = "base", !.inits.llm = @ + 1]
                     ELSE [models EXCEPT !.threads[t] = IdleThread]
        /\ ModelsFrame

\* the adapters are attached where present and self.llm_model.eval() is called
l_eval ==
    \E t \in Threads :
        /\ Thread(t).pc = "l_eval"
        /\ models' = [Goto(models, t, "use") EXCEPT !.llm_model = "ready"]
        /\ ModelsFrame

\* QueryManager.query goes on with model_manager.llm_tokenizer and llm_model
m_use ==
    \E t \in Threads :
        /\ Thread(t).pc = "use"
        /\ models' = [Goto(models, t, "done") EXCEPT
                         !.threads[t].midway = (models.llm_model # "ready"),
                         !.threads[t].method = "generate"]
        /\ ModelsFrame

\* _try_load_pipeline: if _pipeline_loaded: return
s_check ==
    \E t \in Threads :
        /\ Thread(t).pc = "s_check"
        /\ models' = [Goto(models, t, IF models.pipeline_loaded THEN "s_use" ELSE "s_flag")
                         EXCEPT !.threads[t].after_failure =
                                    /\ models.pipeline_loaded
                                    /\ models.pipeline = None
                                    /\ ~PipelineLoading(t)]
        /\ ModelsFrame

\* _pipeline_loaded = True
s_flag ==
    \E t \in Threads :
        /\ Thread(t).pc = "s_flag"
        /\ models' = [Goto(models, t, "s_load") EXCEPT !.pipeline_loaded = TRUE]
        /\ ModelsFrame

\* _pipeline = pipeline("zero-shot-classification", ...), or None when it raises
s_load ==
    \E t \in Threads, ok \in BOOLEAN :
        /\ Thread(t).pc = "s_load"
        /\ models' = [Goto(models, t, "s_use") EXCEPT
                         !.pipeline = IF ok THEN "loaded" ELSE None,
                         !.inits.pipeline = @ + 1]
        /\ ModelsFrame

\* classify_text: if _pipeline: zero-shot, else the keyword fallback
s_use ==
    \E t \in Threads :
        /\ Thread(t).pc = "s_use"
        /\ models' = [Goto(models, t, "done") EXCEPT
                         !.threads[t].midway = (models.pipeline = None /\ PipelineLoading(t)),
                         !.threads[t].method = IF models.pipeline # None THEN "zeroshot"
                                               ELSE "heuristic"]
        /\ ModelsFrame

\* the request returns and the thread goes back to the pool
m_return ==
    \E t \in Threads :
        /\ Thread(t).pc = "done"
        /\ models' = [models EXCEPT !.threads[t] = IdleThread]
        /\ ModelsFrame

NextModels ==
    \/ m_begin
    \/ e_check
    \/ e_load
    \/ l_check
    \/ l_tok
    \/ l_model
    \/ l_eval
    \/ m_use
    \/ s_check
    \/ s_flag
    \/ s_load
    \/ s_use
    \/ m_return

SpecModels == InitConc /\ [][NextModels]_vars

\* C28: with concurrent requests each process-wide model (embedding model,
\* generator, sentinel pipeline) is initialized at most once, no request uses a
\* model slot whose initialization has started but not completed, and after a
\* failed sentinel initialization every later check reports unavailable
\* without attempting the load again.
C28_ModelsLoadedOnceAndWhole ==
    /\ models.inits.embedding <= 1
    /\ models.inits.llm <= 1
    /\ models.inits.pipeline <= 1
    /\ \A t \in Threads : ~Thread(t).midway
    /\ \A t \in Threads :
           Thread(t).after_failure =>
               /\ Thread(t).pc \notin {"s_flag", "s_load"}
               /\ Thread(t).pc = "done" => Thread(t).method = "heuristic"

\* a check that starts after a failed load never starts the load again
C28_NoReloadAfterFailure ==
    \A t \in Threads :
        Thread(t).after_failure => Thread(t).pc \notin {"s_flag", "s_load"}

\* the generator is never loaded a second time
C28_GeneratorLoadedOnce == models.inits.llm <= 1

\* no request reads a slot while its load is under way
C28_NoSlotUsedMidway == \A t \in Threads : ~Thread(t).midway

----------------------------------------------------------------------------
(* Crowding runs: a guest's ranked query on a corpus of public chunks, with *)
(* and without admin chunks added to it                                     *)

MaxAdmins == 22     \* admin chunks added to the corpus in crowding runs
MaxPublic == 2      \* public chunks of the corpus in crowding runs

\* n chunks of one role
ChunksOfRole(role, n) == [i \in 1..n |-> [role |-> role, text |-> VacationText]]

\* the positions lo .. lo + n - 1 as a list
Span(lo, n) == [i \in 1..n |-> lo + i - 1]

RankedRetrievers == {"query_engine", "GuardRAG.query"}

\* the public chunks are chunks 0 .. p-1 and are ranked in order; the admin
\* chunks are chunks p .. p+a-1 and their similarities put them together after
\* the first pos public chunks
crowded_query ==
    /\ result = NoResult
    /\ \E via \in RankedRetrievers, p \in 1..MaxPublic, a \in 0..MaxAdmins :
         \E pos \in 0..p :
            LET alone == Retrieved(via, CorpusOf(ChunksOfRole("public", p)),
                                   VacationQuery, "guest", {}, Span(0, p))
                m == CorpusOf(ChunksOfRole("public", p) \o ChunksOfRole("admin", a))
                ranking == Span(0, pos) \o Span(p, a) \o Span(pos, p - pos)
                r == Retrieved(via, m, VacationQuery, "guest", {}, ranking)
            IN result' = [op |-> "crowded_query", via |-> via, status |-> r.status,
                          admins |-> a, ranking |-> ranking,
                          context |-> Idxs(r.context), answered |-> r.answered,
                          alone_context |-> Idxs(alone.context),
                          alone_answered |-> alone.answered]
    /\ Static
    /\ UNCHANGED <<index, metadata, documents, file_index, file_meta, LAST_TRACE>>

NextCrowd == crowded_query \/ Deliver

SpecCrowd == InitConc /\ [][NextCrowd]_vars

\* C29: for a guest query on the ranked path the context depends only on the
\* public chunks: adding admin chunks to the corpus, whatever their relevance
\* and however many, never changes which public chunks the guest receives nor
\* turns an answered query into a blocked one.
C29_AdminChunksDoNotCrowdOut ==
    result.op = "crowded_query" =>
        /\ result.context = result.alone_context
        /\ result.alone_answered => result.answered

\* the same while the corpus has no more chunks than the ranked path considers
C29_SmallCorpusNotCrowded ==
    (result.op = "crowded_query" /\ Len(result.ranking) <= TopN) =>
        /\ result.context = result.alone_context
        /\ result.alone_answered => result.answered

----------------------------------------------------------------------------
(* Chunking runs: smart_chunk_text on a text given by the lengths of its     *)
(* sentences, with the chunk_size and overlap of the loaded configuration.   *)
(* Lengths are scaled down: a chunk_size of 3 stands for the default 500.    *)

MaxSentence == 5    \* longest sentence of a chunked text
MaxSentences == 2   \* sentences of a chunked text
MaxChunks == 8      \* chunks are counted up to this many

\* IngestionConfig declares chunk_size: int and chunk_overlap: int and nothing
\* more, so every pair of integers loads
ChunkSizes == 1..3
ChunkOverlaps == 0..3

InitChunk ==
    /\ impl = "src"
    /\ hard_patterns = DefaultPatterns
    /\ sentinel_available = FALSE
    /\ index = NoIndex
    /\ metadata = <<>>
    /\ documents = <<>>
    /\ file_index = NoIndex
    /\ file_meta = NoMetaFile
    /\ result = NoResult
    /\ assessed = NoAssess
    /\ up = Idle
    /\ qr = Idle
    /\ LAST_TRACE = NoTrace
    /\ loop = NoRequests
    /\ config \in {[DefaultConfig EXCEPT !.chunk_size = c, !.chunk_overlap = o] :
                     c \in ChunkSizes, o \in ChunkOverlaps}
    /\ managers = AllManagers
    /\ models = NoModels
    /\ chunker = NoChunker

ChunkFrame ==
    UNCHANGED <<impl, hard_patterns, sentinel_available, index, metadata, documents,
                file_index, file_meta, result, assessed, up, qr, LAST_TRACE, loop,
                config, managers, models>>

\* chunks.append(...), counted up to MaxChunks
Appended(n) == Min(n + 1, MaxChunks)

\* ingest_pdf calls smart_chunk_text(full_text, config.ingestion.chunk_size,
\* config.ingestion.chunk_overlap); the text is split into sentences
c_begin ==
    /\ chunker.pc = "idle"
    /\ \E sentences \in SeqsUpTo(1..MaxSentence, MaxSentences) :
        chunker' = [pc |-> IF sentences = <<>> THEN "done" ELSE "for",
                    sentences |-> sentences, i |-> 1, current |-> 0, start |-> 0,
                    n_chunks |-> 0,
                    chunk_size |-> config.chunk_size, overlap |-> config.chunk_overlap]
    /\ ChunkFrame

\* one pass of "for s in sentences" up to the forced split, and after the last
\* sentence the final append and the overlap pass (a for loop over the chunks)
c_sentence ==
    /\ chunker.pc = "for"
    /\ LET c == chunker
           flushed == IF c.current > 0 THEN Appended(c.n_chunks) ELSE c.n_chunks
       IN chunker' =
            IF c.i > Len(c.sentences)
            THEN [c EXCEPT !.pc = "done", !.n_chunks = flushed]
            ELSE LET s == c.sentences[c.i]
                 IN IF c.current + s <= c.chunk_size
                    THEN [c EXCEPT !.current = @ + s, !.i = @ + 1]
                    ELSE IF s > c.chunk_size
                    THEN [c EXCEPT !.n_chunks = flushed, !.start = 0, !.pc = "while"]
                    ELSE [c EXCEPT !.n_chunks = flushed, !.current = s, !.i = @ + 1]
    /\ ChunkFrame

\* start += (chunk_size - overlap)
ForcedSplitStep(chunk_size, overlap) == chunk_size - overlap

\* while start < len(s): one chunk is appended and start moves; a start that
\* moves backwards is followed down to -MaxSentence
c_split ==
    /\ chunker.pc = "while"
    /\ chunker.start < chunker.sentences[chunker.i]
    /\ chunker' = [chunker EXCEPT
                      !.n_chunks = Appended(@),
                      !.start = Max(@ + ForcedSplitStep(chunker.chunk_size, chunker.overlap),
                                    0 - MaxSentence)]
    /\ ChunkFrame

\* the while loop ends; current = ""
c_split_end ==
    /\ chunker.pc = "while"
    /\ chunker.start >= chunker.sentences[chunker.i]
    /\ chunker' = [chunker EXCEPT !.pc = "for", !.current = 0, !.i = @ + 1]
    /\ ChunkFrame

\* the chunks are returned to ingest_pdf
c_return ==
    /\ chunker.pc = "done"
    /\ chunker' = NoChunker
    /\ ChunkFrame

NextChunk ==
    \/ c_begin
    \/ c_sentence
    \/ c_split
    \/ c_split_end
    \/ c_return

SpecChunk == InitChunk /\ [][NextChunk]_vars

\* the thread that runs smart_chunk_text keeps running it
SpecChunkFair == SpecChunk /\ WF_vars(NextChunk)

\* C30: smart_chunk_text terminates for every text and every (chunk_size,
\* overlap) pair the ingestion path can pass to it from the loaded
\* configuration: the forced-split loop over a sentence longer than chunk_size
\* moves its start position forward in every pass, until the sentence is
\* consumed.
C30_ForcedSplitAdvances ==
    [][(chunker.pc = "while" /\ chunker'.pc = "while") =>
           chunker'.start > chunker.start]_vars

\* a call that has started always returns (chunks are counted up to
\* MaxChunks, so a loop that never ends shows as a run that stays in "while")
C30_ChunkingTerminates == (chunker.pc = "for") ~> (chunker.pc = "done")

\* with an overlap smaller than the chunk size every call returns
C30_TerminatesWhenOverlapSmaller ==
    (chunker.pc = "for" /\ config.chunk_overlap < config.chunk_size)
        ~> (chunker.pc = "done")

====
